---- MODULE Spec2Model ----
(***************************************************************************)
(* Tiny World Explorer: the useCamera hook (device list, stream             *)
(* negotiation, hand-off, health sampling and teardown), and the pan/zoom  *)
(* transform state and the convolution kernels of App.                     *)
(*                                                                         *)
(* React is modelled as follows.  An event handler, a promise continuation *)
(* or a timer callback is one atomic step (state updates made in one       *)
(* callback are batched into one render).  A render whose effect           *)
(* dependencies changed leaves effects pending; RunEffects / RunPanEffect  *)
(* then runs the cleanups of the changed effects followed by their bodies, *)
(* and no event or promise callback is delivered between a render and its  *)
(* effects.  A timer that is due can fire there.                           *)
(***************************************************************************)
EXTENDS Integers, Sequences, FiniteSets, TLC

(* ------------------------------ bounds --------------------------------- *)
\* number of acquisition requests (runs of the stream effect body) explored
MaxRequests == 3

\* number of enumerateDevices calls after which no further 'devicechange'
\* event is explored
MaxEnums == 3

\* number of calls of startRecording and stopRecording, and of takePhoto,
\* explored
MaxCalls == 3

\* offsetWidth and offsetHeight of the video element, and the largest pointer
\* coordinate, in pixels
ViewSize == 2

(* ------------------------------ values --------------------------------- *)
\* useState(null): no stream; streams are numbered from 1 in acquisition order
NULL == 0
\* useState(null) for error
NoError == "null"
\* the deviceIds of the capture devices the platform offers
Devs == {"camA", "camB"}
\* err.message of a rejected getUserMedia call
ErrMessages == {"NotReadableError", "OverconstrainedError"}

VARIABLES
    hookMounted,        \* the component using the hook is mounted
    selectedDeviceId,   \* useState('')   "" is the empty selection
    compatibilityMode,  \* useState(false)
    stream,             \* useState(null) the active stream (NULL or a stream number)
    error,              \* useState(null)
    reqs,               \* every run of startStream, with its closure (mounted, calls)
    streams,            \* every MediaStream getUserMedia resolved with
    effDeps,            \* deps [selectedDeviceId, compatibilityMode] of the last run of the stream effect
    curReq,             \* the request whose closure the stream effect's cleanup holds (0: none)
    cleanupStream,      \* the stream the [stream] effect's cleanup closes over
    plugged,            \* the platform's devices, in enumeration order
    devices,            \* useState([]) the video inputs of the last enumeration
    devicesFrom,        \* the enumeration that produced devices (0: the initial [])
    enums,              \* every call of getDevices, with its closure (selectedDeviceId)
    labelDevices,       \* dep devices of the last run of the label effect
    labelEnums,         \* the calls of getDevices made by the label effect
    debugInfo,          \* useState(null) the last health sample (NoSample: null)
    intervals,          \* the streams whose sampling interval is set
    zoom,               \* filters.zoom in tenths (10 .. 50)
    pan,                \* pan {x, y}, each in units of 1/(20*ViewSize)
    isDragging,         \* isDraggingRef.current
    lastMousePos,       \* lastMousePosRef.current
    splitMode,          \* splitMode
    panEffZoom,         \* dep [filters.zoom] of the last run of the pan reset effect
    sharpen,            \* filters.sharpen (0 .. 100)
    emboss,             \* filters.emboss (0 .. 100)
    isRecording,        \* useState(false)
    mediaRecorderRef,   \* mediaRecorderRef.current (NULL or a recorder number)
    recordedChunksRef,  \* recordedChunksRef.current: the recorders whose chunk was pushed
    recorders,          \* every MediaRecorder created, with its onstop handler
    startCalls,         \* every call of startRecording, with what it did
    stopCalls,          \* every call of stopRecording, with the state of its promise
    aspectRatio,        \* useState('3/2')
    storage,            \* localStorage: the text stored under camera_settings_<deviceId>
    isLoadedRef,        \* isLoadedRef.current
    settleTimers,       \* the pending 100 ms timers of the Load Settings effect
    loadDep,            \* dep selectedDeviceId of the last run of the Load Settings effect
    saveDeps,           \* deps of the last run of the Save Settings effect
    writes,             \* every localStorage.setItem, with the state it was made in
    mediaItems,         \* useState([]) the gallery, newest item first
    photoCalls          \* every call of takePhoto, with its argument and what it returned

camVars == <<hookMounted, selectedDeviceId, compatibilityMode, stream, error,
             reqs, streams, effDeps, curReq, cleanupStream>>
regVars == <<plugged, devices, devicesFrom, enums, labelDevices, labelEnums>>
monVars == <<debugInfo, intervals>>
hookVars == <<camVars, regVars, monVars>>
panVars == <<zoom, pan, isDragging, lastMousePos, splitMode, panEffZoom>>
kernelVars == <<sharpen, emboss>>
recordVars == <<isRecording, mediaRecorderRef, recordedChunksRef, recorders,
                startCalls, stopCalls>>
prefVars == <<aspectRatio, storage, isLoadedRef, settleTimers, loadDep, saveDeps, writes>>
captureVars == <<mediaItems, photoCalls>>
vars == <<hookVars, panVars, kernelVars, recordVars, prefVars, captureVars>>

(* ------------------------- constraint sets ----------------------------- *)
\* a hint of 0 is an absent hint
ProfileConstraints(deviceId, compat) ==
    IF compat
    THEN [exact |-> deviceId, width |-> 640, height |-> 480, frameRate |-> 30]
    ELSE [exact |-> deviceId, width |-> 1920, height |-> 1080, frameRate |-> 0]

FallbackConstraints_anyDevice(deviceId) ==
    [exact |-> "", width |-> 0, height |-> 0, frameRate |-> 0]

FallbackConstraints(deviceId) ==
    [exact |-> deviceId, width |-> 0, height |-> 0, frameRate |-> 0]

\* the platform: an exact deviceId constraint opens that device or fails;
\* without one it may open any device
Openable(c) == IF c.exact = "" THEN Devs ELSE {c.exact} \cap Devs

(* ----------------------------- tracks ---------------------------------- *)
\* getTracks().forEach(track => track.stop()) on stream s.  via and succ
\* record, for the first stop only, which code stopped it and which stream
\* was the active one (the successor) at that moment.
StopTracks(strs, s, via, succ) ==
    [strs EXCEPT ![s] = [@ EXCEPT !.readyState = "ended",
                                  !.stops = @ + 1,
                                  !.firstStop = IF strs[s].stops = 0 THEN via ELSE @,
                                  !.succ = IF strs[s].stops = 0 THEN succ ELSE @]]

\* setStream(prevStream => { if (prevStream) stop its tracks; return newStream })
SetStreamUpdater(strs, prevStream, newStream) ==
    IF prevStream # NULL
    THEN StopTracks(strs, prevStream, "updater", newStream)
    ELSE strs

UnmountedBranch_leak(strs, newStream) == strs

\* else branch: "Unmounted during request"
UnmountedBranch(strs, newStream) == StopTracks(strs, newStream, "discard", NULL)

StreamCleanup_noStop(strs, s, via, succ) == strs

\* cleanup of the [stream] effect: if (stream) stop its tracks
StreamCleanup(strs, s, via, succ) ==
    IF s # NULL THEN StopTracks(strs, s, via, succ) ELSE strs

StreamEffectCleanupTracks_stopNow(strs, s) ==
    IF s # NULL /\ strs[s].readyState = "live"
    THEN StopTracks(strs, s, "effect", NULL)
    ELSE strs

\* cleanup of the stream effect: it does NOT stop the active stream
StreamEffectCleanupTracks(strs, s) == strs

StreamEffectCleanupFlag_stillMounted(req) == req

\* cleanup of the stream effect: mounted = false
StreamEffectCleanupFlag(req) == [req EXCEPT !.mounted = FALSE]

(* --------------------------- startStream ------------------------------- *)
AfterReject_retryAgain(phase) == "fallback"

\* what follows a rejected getUserMedia: the inner catch issues the minimal
\* call, a rejection of that one reaches the outer catch
AfterReject(phase) == IF phase = "primary" THEN "fallback" ELSE "catch"

ErrorText(msg) == "Failed to connect: " \o msg

CatchBranch_keepStream(mounted, msg, curError, curStream) ==
    IF mounted
    THEN [error |-> ErrorText(msg), stream |-> curStream]
    ELSE [error |-> curError, stream |-> curStream]

\* outer catch: if (mounted) { setError(...); setStream(null) }
CatchBranch(mounted, msg, curError, curStream) ==
    IF mounted
    THEN [error |-> ErrorText(msg), stream |-> NULL]
    ELSE [error |-> curError, stream |-> curStream]

SuccessError_keep(curError) == curError

\* setError(null) after a stream was stored
SuccessError(curError) == NoError

NewRequest(deviceId, compat) ==
    [deviceId |-> deviceId, compat |-> compat, mounted |-> TRUE,
     phase |-> "primary", calls |-> <<ProfileConstraints(deviceId, compat)>>,
     rejects |-> 0]

InFlight(r) == reqs[r].phase \in {"primary", "fallback"}

(* ---------------------------- getDevices ------------------------------- *)
\* MediaDeviceInfo objects of the platform
Mic == [deviceId |-> "mic", kind |-> "audioinput", label |-> "Microphone"]
Cam(d) == [deviceId |-> d, kind |-> "videoinput", label |-> "Camera " \o d]

\* the orders in which the platform can list the cameras that are plugged in
CamOrders ==
    {o \in UNION {[1..n -> Devs] : n \in 0..Cardinality(Devs)} :
        \A i, j \in DOMAIN o : i # j => o[i] # o[j]}

\* the platform's device list: a microphone followed by the cameras
PlatformList(o) == <<Mic>> \o [i \in DOMAIN o |-> Cam(o[i])]

PlatformLists == {PlatformList(o) : o \in CamOrders}

\* navigator.mediaDevices.enumerateDevices(): labels are exposed only once
\* the permission is granted
EnumerateDevices(list, granted) ==
    [i \in DOMAIN list |-> [list[i] EXCEPT !.label = IF granted THEN @ ELSE ""]]

IsVideoInput(device) == device.kind = "videoinput"

\* deviceList.filter(device => device.kind === 'videoinput')
VideoInputs(deviceList) == SelectSeq(deviceList, IsVideoInput)

AutoSelect_last(closureSelected, videoDevices, current) ==
    IF closureSelected = "" /\ Len(videoDevices) > 0
    THEN videoDevices[Len(videoDevices)].deviceId
    ELSE current

\* if (!selectedDeviceId && videoDevices.length > 0)
\*     setSelectedDeviceId(videoDevices[0].deviceId)
\* with the selectedDeviceId of the render that created this getDevices
AutoSelect(closureSelected, videoDevices, current) ==
    IF closureSelected = "" /\ Len(videoDevices) > 0
    THEN videoDevices[1].deviceId
    ELSE current

\* a call of getDevices by the render whose selectedDeviceId is closureSelected
NewEnum(closureSelected) == [selectedDeviceId |-> closureSelected, phase |-> "pending"]

\* effect on [getDevices]: getDevices(), and the 'devicechange' listener is
\* replaced by the new getDevices
ScanEffect(changed, selected) == IF changed THEN <<NewEnum(selected)>> ELSE <<>>

\* devices.some(d => d.label)
SomeLabel(devs) == \E i \in DOMAIN devs : devs[i].label # ""

\* effect on [stream, devices, getDevices]:
\* if (stream && !devices.some(d => d.label)) getDevices()
LabelEffect(changed, str, devs, selected) ==
    IF changed /\ str # NULL /\ ~SomeLabel(devs) THEN <<NewEnum(selected)>> ELSE <<>>

(* --------------------------- health monitor ---------------------------- *)
\* cleanup of the monitor effect: clearInterval(interval)
ClearInterval(ivs, s) == ivs \ {s}

\* monitor effect body, second half: setInterval(..., 1000) for the stream
SetInterval(ivs, s) == IF s # NULL THEN ivs \cup {s} ELSE ivs

\* debugInfo null: the sample of no stream
NoSample == [stream |-> NULL, readyState |-> "", label |-> ""]

\* monitor effect body, first half: if (!stream) { setDebugInfo(null); return }
MonitorBody(s, info) == IF s = NULL THEN NoSample ELSE info

\* the object the interval callback passes to setDebugInfo, for the stream s
\* of its closure
Sample(strs, s) ==
    [stream |-> s, readyState |-> strs[s].readyState, label |-> strs[s].deviceId]

\* the deps of some effect differ from those of its last run: selectedDeviceId
\* (and so getDevices), compatibilityMode, stream or devices
EffectsPending ==
    /\ hookMounted
    /\ \/ <<selectedDeviceId, compatibilityMode>> # effDeps
       \/ stream # cleanupStream
       \/ devicesFrom # labelDevices

(* ---------------------------- preferences ------------------------------ *)
\* the numbers that occur in filters (zoom in tenths)
Numerals == 0..100

\* the text JSON.stringify writes for a number, and JSON.parse of it
NumberText(n) == ToString(n)
ParseNumber(t) == CHOOSE n \in Numerals : ToString(n) = t

\* localStorage.getItem(...) === null: nothing is stored under the key
NoEntry == [filters |-> <<>>, aspectRatio |-> "", compatibilityMode |-> ""]

\* a stored text that is not JSON
Unparsable == [filters |-> <<"{">>, aspectRatio |-> "{", compatibilityMode |-> "{"]

\* try { JSON.parse(saved) ... } catch (e) { ... }: the catch block sets the
\* filters and the aspect ratio the else branch (nothing stored) sets, and
\* like it leaves compatibilityMode alone
TryParse(saved) == IF saved = Unparsable THEN NoEntry ELSE saved

\* JSON.stringify({ filters, aspectRatio, compatibilityMode }): the text of
\* each member
Stringify(settings) ==
    [filters |-> <<NumberText(settings.filters.zoom),
                   NumberText(settings.filters.sharpen),
                   NumberText(settings.filters.emboss)>>,
     aspectRatio |-> settings.aspectRatio,
     compatibilityMode |-> IF settings.compatibilityMode THEN "true" ELSE "false"]

\* DEFAULT_FILTERS
DefaultFilters == [zoom |-> 10, sharpen |-> 0, emboss |-> 0]

\* parsed.filters || DEFAULT_FILTERS (and DEFAULT_FILTERS when nothing is stored)
LoadedFilters(entry) ==
    IF entry.filters = <<>>
    THEN DefaultFilters
    ELSE [zoom |-> ParseNumber(entry.filters[1]),
          sharpen |-> ParseNumber(entry.filters[2]),
          emboss |-> ParseNumber(entry.filters[3])]

LoadedAspect_default(entry) == "3/2"

\* parsed.aspectRatio || '3/2' (and '3/2' when nothing is stored)
LoadedAspect(entry) == IF entry.aspectRatio = "" THEN "3/2" ELSE entry.aspectRatio

\* if (parsed.compatibilityMode !== undefined) setCompatibilityMode(...)
LoadedCompat(entry, current) ==
    IF entry.compatibilityMode = "" THEN current ELSE entry.compatibilityMode = "true"

\* the settings of the current render
Settings ==
    [filters |-> [zoom |-> zoom, sharpen |-> sharpen, emboss |-> emboss],
     aspectRatio |-> aspectRatio, compatibilityMode |-> compatibilityMode]

\* deps [filters, aspectRatio, compatibilityMode, selectedDeviceId]
SaveDeps ==
    [filters |-> Settings.filters, aspectRatio |-> aspectRatio,
     compatibilityMode |-> compatibilityMode, selectedDeviceId |-> selectedDeviceId]

\* no setItem was made for the device yet
NeverSaved == [saved |-> FALSE, settings |-> [filters |-> DefaultFilters,
               aspectRatio |-> "3/2", compatibilityMode |-> FALSE], early |-> FALSE]

\* the deps of the Load Settings or the Save Settings effect differ from
\* those of its last run
SettingsEffectsPending ==
    hookMounted /\ (selectedDeviceId # loadDep \/ SaveDeps # saveDeps)

(* ------------------------------ Init ----------------------------------- *)
InitCam ==
    /\ hookMounted = TRUE
    /\ selectedDeviceId = ""
    /\ compatibilityMode = FALSE
    /\ stream = NULL
    /\ error = NoError
    /\ reqs = <<>>
    /\ streams = <<>>
    /\ effDeps = <<"", FALSE>>
    /\ curReq = 0
    /\ cleanupStream = NULL

InitPan ==
    /\ zoom = 10
    /\ pan = [x |-> 0, y |-> 0]
    /\ isDragging = FALSE
    /\ lastMousePos = [x |-> 0, y |-> 0]
    /\ splitMode = FALSE
    /\ panEffZoom = 10

\* DEFAULT_FILTERS
InitKernel ==
    /\ sharpen = 0
    /\ emboss = 0

\* after the first effects: the initial device scan is in flight, the
\* platform lists a microphone and both cameras
InitRegistry ==
    /\ plugged = PlatformList(<<"camA", "camB">>)
    /\ devices = <<>>
    /\ devicesFrom = 0
    /\ enums = <<NewEnum("")>>
    /\ labelDevices = 0
    /\ labelEnums = {}

InitMonitor ==
    /\ debugInfo = NoSample
    /\ intervals = {}

\* preferences: nothing stored, the first effects (no device selected) have run
InitPref ==
    /\ aspectRatio = "3/2"
    /\ storage = [d \in Devs |-> NoEntry]
    /\ isLoadedRef = FALSE
    /\ settleTimers = 0
    /\ loadDep = ""
    /\ saveDeps = [filters |-> [zoom |-> 10, sharpen |-> 0, emboss |-> 0],
                   aspectRatio |-> "3/2", compatibilityMode |-> FALSE,
                   selectedDeviceId |-> ""]
    /\ writes = [d \in Devs |-> NeverSaved]

InitRecord ==
    /\ isRecording = FALSE
    /\ mediaRecorderRef = NULL
    /\ recordedChunksRef = <<>>
    /\ recorders = <<>>
    /\ startCalls = <<>>
    /\ stopCalls = <<>>

InitCapture ==
    /\ mediaItems = <<>>
    /\ photoCalls = <<>>

Init ==
    /\ InitCam /\ InitRegistry /\ InitMonitor /\ InitPan /\ InitKernel
    /\ InitRecord /\ InitPref /\ InitCapture

(* --------------------------- hook actions ------------------------------ *)
\* setSelectedDeviceId(d): the device <select>, or the auto-selection of getDevices
SetSelectedDeviceId(d) ==
    /\ hookMounted /\ ~EffectsPending
    /\ Len(reqs) < MaxRequests
    /\ d # selectedDeviceId
    /\ selectedDeviceId' = d
    /\ UNCHANGED <<hookMounted, compatibilityMode, stream, error, reqs, streams,
                   effDeps, curReq, cleanupStream, regVars, monVars, panVars, kernelVars,
                   recordVars, prefVars, captureVars>>

\* setCompatibilityMode(b): the HD / LOW RES button, or loaded settings
SetCompatibilityMode(b) ==
    /\ hookMounted /\ ~EffectsPending
    /\ Len(reqs) < MaxRequests
    /\ b # compatibilityMode
    /\ compatibilityMode' = b
    /\ UNCHANGED <<hookMounted, selectedDeviceId, stream, error, reqs, streams,
                   effDeps, curReq, cleanupStream, regVars, monVars, panVars, kernelVars,
                   recordVars, prefVars, captureVars>>

\* the effects of the last render: cleanups of the effects whose deps
\* changed, then their bodies
RunEffects ==
    /\ EffectsPending
    /\ LET depsChanged == <<selectedDeviceId, compatibilityMode>> # effDeps
           streamChanged == stream # cleanupStream
           scanChanged == selectedDeviceId # effDeps[1]
           labelChanged == streamChanged \/ scanChanged \/ devicesFrom # labelDevices
           reqs1 == IF depsChanged /\ curReq # 0
                    THEN [reqs EXCEPT ![curReq] = StreamEffectCleanupFlag(@)]
                    ELSE reqs
           strs1 == IF depsChanged /\ curReq # 0
                    THEN StreamEffectCleanupTracks(streams, stream)
                    ELSE streams
           strs2 == IF streamChanged
                    THEN StreamCleanup(strs1, cleanupStream, "cleanup", stream)
                    ELSE strs1
       IN  /\ streams' = strs2
           /\ cleanupStream' = stream
           /\ effDeps' = <<selectedDeviceId, compatibilityMode>>
           /\ IF depsChanged
              THEN IF selectedDeviceId = ""
                   THEN reqs' = reqs1 /\ curReq' = 0
                   ELSE /\ reqs' = Append(reqs1, NewRequest(selectedDeviceId, compatibilityMode))
                        /\ curReq' = Len(reqs) + 1
              ELSE reqs' = reqs1 /\ curReq' = curReq
           /\ enums' = enums \o ScanEffect(scanChanged, selectedDeviceId)
                           \o LabelEffect(labelChanged, stream, devices, selectedDeviceId)
           /\ labelDevices' = devicesFrom
           /\ labelEnums' = IF LabelEffect(labelChanged, stream, devices, selectedDeviceId) # <<>>
                            THEN labelEnums \cup {Len(enums')}
                            ELSE labelEnums
           /\ intervals' = IF streamChanged
                           THEN SetInterval(ClearInterval(intervals, cleanupStream), stream)
                           ELSE intervals
           /\ debugInfo' = IF streamChanged THEN MonitorBody(stream, debugInfo) ELSE debugInfo
    /\ UNCHANGED <<hookMounted, selectedDeviceId, compatibilityMode, stream, error,
                   plugged, devices, devicesFrom, panVars, kernelVars,
                   recordVars, prefVars, captureVars>>

\* a getUserMedia call of request r resolves: the rest of startStream's try block
GumResolve(r) ==
    /\ ~EffectsPending
    /\ InFlight(r)
    /\ \E d \in Openable(reqs[r].calls[Len(reqs[r].calls)]) :
         LET s == Len(streams) + 1
             rec == [deviceId |-> d, req |-> r, readyState |-> "live", stops |-> 0,
                     everActive |-> FALSE, firstStop |-> "none", succ |-> NULL,
                     superseded |-> (r # Len(reqs)) \/ ~hookMounted,
                     afterTeardown |-> ~hookMounted]
         IN  IF reqs[r].mounted
             THEN /\ streams' = SetStreamUpdater(
                                   Append(streams, [rec EXCEPT !.everActive = TRUE]),
                                   stream, s)
                  /\ stream' = s
                  /\ error' = SuccessError(error)
                  /\ reqs' = [reqs EXCEPT ![r].phase = "active"]
             ELSE /\ streams' = UnmountedBranch(Append(streams, rec), s)
                  /\ reqs' = [reqs EXCEPT ![r].phase = "discarded"]
                  /\ UNCHANGED <<stream, error>>
    /\ UNCHANGED <<hookMounted, selectedDeviceId, compatibilityMode, effDeps, curReq,
                   cleanupStream, regVars, monVars, panVars, kernelVars,
                   recordVars, prefVars, captureVars>>

\* a getUserMedia call of request r rejects with message msg
GumReject(r, msg) ==
    /\ ~EffectsPending
    /\ InFlight(r)
    /\ IF AfterReject(reqs[r].phase) = "fallback"
       THEN /\ reqs' = [reqs EXCEPT ![r].phase = "fallback",
                                    ![r].rejects = @ + 1,
                                    ![r].calls = Append(@, FallbackConstraints(reqs[r].deviceId))]
            /\ UNCHANGED <<stream, error>>
       ELSE LET c == CatchBranch(reqs[r].mounted, msg, error, stream)
            IN  /\ reqs' = [reqs EXCEPT ![r].phase = IF reqs[r].mounted THEN "failed" ELSE "abandoned",
                                        ![r].rejects = @ + 1]
                /\ error' = c.error
                /\ stream' = c.stream
    /\ UNCHANGED <<hookMounted, selectedDeviceId, compatibilityMode, streams, effDeps,
                   curReq, cleanupStream, regVars, monVars, panVars, kernelVars,
                   recordVars, prefVars, captureVars>>

\* the component unmounts: every effect's cleanup runs
Unmount ==
    /\ hookMounted /\ ~EffectsPending
    /\ hookMounted' = FALSE
    /\ reqs' = IF curReq # 0
               THEN [reqs EXCEPT ![curReq] = StreamEffectCleanupFlag(@)]
               ELSE reqs
    /\ streams' = StreamCleanup(
                     IF curReq # 0 THEN StreamEffectCleanupTracks(streams, stream) ELSE streams,
                     cleanupStream, "teardown", NULL)
    /\ intervals' = ClearInterval(intervals, cleanupStream)
    /\ UNCHANGED <<selectedDeviceId, compatibilityMode, stream, error, effDeps, curReq,
                   cleanupStream, regVars, debugInfo, panVars, kernelVars,
                   recordVars, prefVars, captureVars>>

(* -------------------------- registry actions --------------------------- *)
\* the device <select>: its options are the entries of devices
SelectDevice(d) ==
    /\ \E i \in DOMAIN devices : devices[i].deviceId = d
    /\ SetSelectedDeviceId(d)

\* a camera is plugged in or out (the platform's list becomes list) and the
\* 'devicechange' listener, the getDevices of the last effects run, is called
DeviceChange(list) ==
    /\ hookMounted /\ ~EffectsPending
    /\ Len(enums) < MaxEnums
    /\ list # plugged
    /\ plugged' = list
    /\ enums' = Append(enums, NewEnum(effDeps[1]))
    /\ UNCHANGED <<camVars, devices, devicesFrom, labelDevices, labelEnums, monVars, panVars, kernelVars,
                   recordVars, prefVars, captureVars>>

\* enumerateDevices() of call e resolves: the rest of getDevices' try block
EnumResolve(e, granted) ==
    /\ hookMounted /\ ~EffectsPending
    /\ enums[e].phase = "pending"
    /\ LET videoDevices == VideoInputs(EnumerateDevices(plugged, granted))
       IN  /\ devices' = videoDevices
           /\ devicesFrom' = e
           /\ selectedDeviceId' = AutoSelect(enums[e].selectedDeviceId, videoDevices,
                                             selectedDeviceId)
    /\ enums' = [enums EXCEPT ![e].phase = "done"]
    /\ UNCHANGED <<hookMounted, compatibilityMode, stream, error, reqs, streams, effDeps,
                   curReq, cleanupStream, plugged, labelDevices, labelEnums, monVars, panVars,
                   kernelVars, recordVars, prefVars, captureVars>>

\* enumerateDevices() of call e rejects: the catch block logs the error
EnumReject(e) ==
    /\ hookMounted /\ ~EffectsPending
    /\ enums[e].phase = "pending"
    /\ enums' = [enums EXCEPT ![e].phase = "logged"]
    /\ UNCHANGED <<camVars, plugged, devices, devicesFrom, labelDevices, labelEnums, monVars,
                   panVars, kernelVars, recordVars, prefVars, captureVars>>

NextRegistry ==
    \/ \E d \in Devs : SelectDevice(d)
    \/ RunEffects
    \/ \E list \in PlatformLists : DeviceChange(list)
    \/ \E e \in 1..Len(enums), granted \in BOOLEAN : EnumResolve(e, granted)
    \/ \E e \in 1..Len(enums) : EnumReject(e)

SpecRegistry == Init /\ [][NextRegistry]_vars

(* --------------------------- monitor actions --------------------------- *)
\* the interval callback set for stream s: setDebugInfo({...}) from the
\* video track of s.  The timer runs until clearInterval: it can also fire
\* between a state update and the effects of the render that follows it.
Tick(s) ==
    /\ s \in intervals
    /\ debugInfo' = Sample(streams, s)
    /\ UNCHANGED <<camVars, regVars, intervals, panVars, kernelVars, recordVars, prefVars, captureVars>>

Next ==
    \/ \E d \in Devs : SetSelectedDeviceId(d)
    \/ \E b \in BOOLEAN : SetCompatibilityMode(b)
    \/ RunEffects
    \/ \E r \in 1..Len(reqs) : GumResolve(r)
    \/ \E r \in 1..Len(reqs), m \in ErrMessages : GumReject(r, m)
    \/ Unmount

Spec == Init /\ [][Next]_vars

NextMonitor ==
    \/ Next
    \/ \E s \in 1..Len(streams) : Tick(s)

SpecMonitor == Init /\ [][NextMonitor]_vars

(* ------------------------ negotiation: fairness ------------------------ *)
\* request r's pending getUserMedia call completes, either way
GumComplete(r) ==
    /\ r \in DOMAIN reqs
    /\ (GumResolve(r) \/ GumReject(r, "NotReadableError"))

NextLive ==
    \/ \E d \in Devs : SetSelectedDeviceId(d)
    \/ \E b \in BOOLEAN : SetCompatibilityMode(b)
    \/ RunEffects
    \/ \E r \in 1..Len(reqs) : GumResolve(r)
    \/ \E r \in 1..Len(reqs) : GumReject(r, "NotReadableError")

\* React runs the effects of every render, and the platform completes every
\* getUserMedia call; nothing obliges the user to act
SpecLive ==
    /\ Init /\ [][NextLive]_vars
    /\ WF_vars(RunEffects)
    /\ \A r \in 1..MaxRequests : WF_vars(GumComplete(r))

(* ---------------------------- label refresh ---------------------------- *)
\* enumerateDevices() of call e resolves; completions are explored until
\* getDevices has been called more than MaxEnums + 1 times
LabelEnumResolve(e, granted) ==
    /\ Len(enums) <= MaxEnums + 1
    /\ EnumResolve(e, granted)

NextLabels ==
    \/ RunEffects
    \/ \E r \in 1..Len(reqs) : GumResolve(r)
    \/ \E list \in PlatformLists : DeviceChange(list)
    \/ \E e \in 1..Len(enums), granted \in BOOLEAN : LabelEnumResolve(e, granted)
    \/ \E e \in 1..Len(enums) : EnumReject(e)

SpecLabels == Init /\ [][NextLabels]_vars

(* ------------------------------ recording ----------------------------- *)
\* event.data.size of the blob a recorder delivers: the sizes explored (an
\* empty blob is not pushed and adds nothing to a clip)
ChunkSizes == {1}

NoStream_never(s) == FALSE

\* if (!stream) return
NoStream(s) == s = NULL

NoRecorder_never(ref) == FALSE

\* if (!mediaRecorderRef.current) return resolve(null)
NoRecorder(ref) == ref = NULL

\* new MediaRecorder(stream) followed by mediaRecorder.start(); onstop is
\* the stopRecording call whose handler is installed (0: none)
NewRecorder(s) == [stream |-> s, state |-> "recording", onstop |-> 0, emitted |-> "none"]

\* startRecording
StartRecording ==
    /\ hookMounted /\ ~EffectsPending
    /\ Len(startCalls) + Len(stopCalls) < MaxCalls
    /\ IF NoStream(stream)
       THEN /\ startCalls' = Append(startCalls, [stream |-> stream, recorder |-> 0])
            /\ UNCHANGED <<isRecording, mediaRecorderRef, recordedChunksRef, recorders>>
       ELSE IF stream = NULL
       THEN \* new MediaRecorder(null) throws after the chunks were reset
            /\ recordedChunksRef' = <<>>
            /\ startCalls' = Append(startCalls, [stream |-> stream, recorder |-> 0])
            /\ UNCHANGED <<isRecording, mediaRecorderRef, recorders>>
       ELSE /\ recordedChunksRef' = <<>>
            /\ recorders' = Append(recorders, NewRecorder(stream))
            /\ isRecording' = TRUE
            /\ mediaRecorderRef' = Len(recorders) + 1
            /\ startCalls' = Append(startCalls,
                                    [stream |-> stream, recorder |-> Len(recorders) + 1])
    /\ UNCHANGED <<stopCalls, hookVars, panVars, kernelVars, prefVars, captureVars>>

\* a call of stopRecording: the recorder it acts on, the state of the
\* promise it returned, the chunks of the clip it resolved with, and the
\* state it was made in (that of the recorder, and isRecording)
NewStopCall(r, result) ==
    [recorder |-> r, result |-> result, clip |-> <<>>,
     state |-> IF r = NULL THEN "none" ELSE recorders[r].state,
     wasRecording |-> isRecording]

\* stopRecording: the promise executor.  stop() on a recorder that is not
\* recording throws InvalidStateError (the promise is rejected) or does
\* nothing, depending on the platform.
StopRecording(throws) ==
    /\ hookMounted /\ ~EffectsPending
    /\ Len(startCalls) + Len(stopCalls) < MaxCalls
    /\ LET c == Len(stopCalls) + 1
           r == mediaRecorderRef
       IN  IF NoRecorder(r)
           THEN /\ stopCalls' = Append(stopCalls, NewStopCall(NULL, "null"))
                /\ UNCHANGED recorders
           ELSE IF r = NULL
           THEN \* null.onstop = ... throws inside the executor
                /\ stopCalls' = Append(stopCalls, NewStopCall(NULL, "rejected"))
                /\ UNCHANGED recorders
           ELSE IF recorders[r].state = "recording"
           THEN /\ recorders' = [recorders EXCEPT ![r].onstop = c, ![r].state = "stopping"]
                /\ stopCalls' = Append(stopCalls, NewStopCall(r, "pending"))
           ELSE /\ recorders' = [recorders EXCEPT ![r].onstop = c]
                /\ stopCalls' = Append(stopCalls,
                        NewStopCall(r, IF throws THEN "rejected" ELSE "pending"))
    /\ UNCHANGED <<isRecording, mediaRecorderRef, recordedChunksRef, startCalls,
                   hookVars, panVars, kernelVars, prefVars, captureVars>>

\* the gallery item handleToggleRecord adds when the stopRecording call it
\* awaits resolves with a clip
VideoItem(call) == [type |-> "video", of |-> call]

\* recorder r becomes inactive: its ondataavailable handler (push the blob if
\* its size is > 0), then its onstop handler if one is installed (build the
\* clip from the chunks, setIsRecording(false), resolve), then the caller
\* awaiting the promise ( if (videoUrl) setMediaItems(...) )
Deliver(r, size) ==
    LET chunks == IF size > 0 THEN Append(recordedChunksRef, r) ELSE recordedChunksRef
        c == recorders[r].onstop
    IN  /\ recordedChunksRef' = chunks
        /\ recorders' = [recorders EXCEPT ![r].state = "inactive",
                                          ![r].emitted = IF size > 0 THEN "data" ELSE "empty"]
        /\ IF c # 0
           THEN /\ isRecording' = FALSE
                /\ stopCalls' = IF stopCalls[c].result = "pending"
                                THEN [stopCalls EXCEPT ![c].result = "clip", ![c].clip = chunks]
                                ELSE stopCalls
                /\ mediaItems' = IF stopCalls[c].result = "pending"
                                 THEN <<VideoItem(c)>> \o mediaItems
                                 ELSE mediaItems
           ELSE UNCHANGED <<isRecording, stopCalls, mediaItems>>
        /\ UNCHANGED <<mediaRecorderRef, startCalls, photoCalls, hookVars, panVars,
                       kernelVars, prefVars>>

\* the task queued by mediaRecorder.stop()
Flush(r, size) ==
    /\ ~EffectsPending
    /\ recorders[r].state = "stopping"
    /\ Deliver(r, size)

\* the platform stops a recorder all of whose tracks have ended
TracksEnded(r, size) ==
    /\ ~EffectsPending
    /\ recorders[r].state = "recording"
    /\ streams[recorders[r].stream].readyState = "ended"
    /\ Deliver(r, size)

\* the device <select>, used while no acquisition is in flight
SelectWhenIdle(d) ==
    /\ \A r \in 1..Len(reqs) : ~InFlight(r)
    /\ SetSelectedDeviceId(d)

NextRecording ==
    \/ \E d \in Devs : SelectWhenIdle(d)
    \/ RunEffects
    \/ \E r \in 1..Len(reqs) : GumResolve(r)
    \/ \E r \in 1..Len(reqs) : GumReject(r, "NotReadableError")
    \/ StartRecording
    \/ \E throws \in BOOLEAN : StopRecording(throws)
    \/ \E r \in 1..Len(recorders), size \in ChunkSizes : Flush(r, size)
    \/ \E r \in 1..Len(recorders), size \in ChunkSizes : TracksEnded(r, size)

SpecRecording == Init /\ [][NextRecording]_vars

(* ------------------- stream negotiation: properties -------------------- *)
StreamIds == 1..Len(streams)
ReqIds == 1..Len(reqs)
LiveStreams == {s \in StreamIds : streams[s].readyState = "live"}
NoneInFlight == \A r \in ReqIds : ~InFlight(r)
Settled == NoneInFlight /\ ~EffectsPending

C2_SupersededNeverActive ==
    \A s \in StreamIds :
        streams[s].superseded
        => /\ ~streams[s].everActive
           /\ (hookMounted => stream # s)
           /\ streams[s].readyState = "ended"
           /\ streams[s].stops = 1
           /\ streams[s].firstStop = "discard"

C2_Witness ==
    \E s \in StreamIds : \E t \in StreamIds :
        /\ streams[s].superseded /\ ~streams[s].afterTeardown
        /\ streams[t].superseded /\ streams[t].afterTeardown

\* an active stream whose tracks were stopped, outside teardown, while no
\* successor stream had been obtained
StoppedWithoutSuccessor(s) ==
    /\ streams[s].everActive
    /\ streams[s].readyState = "ended"
    /\ streams[s].firstStop # "teardown"
    /\ streams[s].succ = NULL

C4_FallbackLadder ==
    \A r \in ReqIds :
        LET n == Len(reqs[r].calls)
        IN  /\ n \in {1, 2}
            /\ reqs[r].calls[1] =
                  IF reqs[r].compat
                  THEN [exact |-> reqs[r].deviceId, width |-> 640, height |-> 480, frameRate |-> 30]
                  ELSE [exact |-> reqs[r].deviceId, width |-> 1920, height |-> 1080, frameRate |-> 0]
            /\ (n = 2) <=> (reqs[r].rejects >= 1)
            /\ n = 2 => reqs[r].calls[2] =
                           [exact |-> reqs[r].deviceId, width |-> 0, height |-> 0, frameRate |-> 0]
            /\ reqs[r].rejects <= 2
            /\ (reqs[r].rejects = 2) <=> (reqs[r].phase \in {"failed", "abandoned"})
            /\ reqs[r].phase = "primary" => n = 1

C4_Witness ==
    /\ \E r \in ReqIds : reqs[r].rejects = 2 /\ reqs[r].phase = "failed"
    /\ \E r \in ReqIds : reqs[r].rejects = 1 /\ reqs[r].phase = "active"
    /\ \E r \in ReqIds : reqs[r].rejects = 0 /\ reqs[r].phase = "active"

\* C5: error non-null implies stream null; and while a request that failed
\* on both attempts without being superseded is the latest one, error is
\* the descriptive message and the active stream is null.
C5_FailedState ==
    /\ error # "null" => stream = NULL
    /\ \A r \in ReqIds :
         (reqs[r].phase = "failed" /\ r = Len(reqs))
         => /\ stream = NULL
            /\ error \in {"Failed to connect: NotReadableError",
                           "Failed to connect: OverconstrainedError"}

\* a failure after a stream had been active, and a later recovery is
\* covered by the first conjunct
C5_Witness ==
    /\ error # "null"
    /\ \E r \in ReqIds : reqs[r].phase = "failed" /\ r = Len(reqs)
    /\ \E s \in StreamIds : streams[s].everActive

\* C6: once an acquisition failure has been processed, a handle that was
\* active is either still active with its tracks live or not active with its
\* tracks stopped; a failure of the current request leaves the active
\* stream null and the prior stream torn down.
C6_FailureLeavesNoHalfRelease ==
    ( /\ hookMounted /\ ~EffectsPending
      /\ \E r \in ReqIds : reqs[r].phase \in {"failed", "abandoned"} )
    => /\ \A s \in StreamIds :
             streams[s].everActive
             => \/ stream = s /\ streams[s].readyState = "live"
                \/ stream # s /\ streams[s].readyState = "ended"
       /\ (reqs[Len(reqs)].phase = "failed")
             => /\ stream = NULL
                /\ \A s \in StreamIds : streams[s].everActive => streams[s].readyState = "ended"

C6_Witness ==
    /\ hookMounted /\ ~EffectsPending
    /\ Len(reqs) > 0 /\ reqs[Len(reqs)].phase = "failed"
    /\ \E s \in StreamIds : streams[s].everActive /\ streams[s].firstStop = "cleanup"
    /\ \E r \in ReqIds : reqs[r].phase = "abandoned"

\* C7: after teardown the active stream has been stopped, a stream acquired
\* by a call that completes after teardown is stopped in the step that
\* acquires it, and once no call is in flight no stream has a live track.
C7_TeardownLeaksNothing ==
    ~hookMounted
    => /\ stream # NULL => streams[stream].readyState = "ended"
       /\ \A s \in StreamIds :
             streams[s].afterTeardown
             => /\ streams[s].readyState = "ended"
                /\ streams[s].stops = 1
                /\ ~streams[s].everActive
       /\ NoneInFlight => LiveStreams = {}

C7_Witness ==
    /\ ~hookMounted /\ NoneInFlight
    /\ stream # NULL /\ streams[stream].firstStop = "teardown"
    /\ \E s \in StreamIds : streams[s].afterTeardown
    /\ \E r \in ReqIds : reqs[r].phase = "discarded" /\ reqs[r].rejects = 1
                           /\ \E s \in StreamIds : streams[s].req = r /\ streams[s].afterTeardown

\* C8: when no acquisition is in flight and effects have run, at most one
\* stream has live tracks and it is the active one; every stream transferred
\* out of the active slot is stopped.
C8_OneLiveStream ==
    Settled
    => /\ LiveStreams \subseteq {stream}
       /\ Cardinality(LiveStreams) <= 1
       /\ \A s \in StreamIds :
             (streams[s].everActive /\ s # stream) => streams[s].readyState = "ended"
       /\ (hookMounted /\ stream # NULL) => LiveStreams = {stream}

C8_Witness ==
    /\ hookMounted /\ Settled
    /\ stream # NULL
    /\ Cardinality({s \in StreamIds : streams[s].everActive /\ s # stream}) >= 2

\* C9: every getUserMedia call of a request carries an exact constraint on
\* the identity selected when the request started, and every stream a
\* request obtains (so every stream that becomes active) is bound to it.
C9_ExactDeviceOnly ==
    /\ \A r \in ReqIds : \A i \in 1..Len(reqs[r].calls) :
          reqs[r].calls[i].exact = reqs[r].deviceId
    /\ \A s \in StreamIds : streams[s].deviceId = reqs[streams[s].req].deviceId
    /\ (hookMounted /\ ~EffectsPending /\ Len(reqs) > 0)
          => reqs[Len(reqs)].deviceId = selectedDeviceId
    /\ (hookMounted /\ ~EffectsPending /\ stream # NULL
          /\ reqs[Len(reqs)].phase = "active")
          => streams[stream].deviceId = selectedDeviceId

\* a stream obtained by the fallback call became active
C9_Witness ==
    /\ stream # NULL /\ hookMounted
    /\ reqs[streams[stream].req].rejects = 1
    /\ streams[stream].deviceId = "camB"

(* ------------------------- transform engine ---------------------------- *)
\* Digital Zoom slider: min={1} max={5} step={0.1}, in tenths
ZoomMin == 10
ZoomMax == 50
\* DEFAULT_FILTERS.zoom, in tenths
DefaultZoom == 10
\* the slider positions explored
ZoomLevels == {z \in {10, 20, 50} : ZoomMin <= z /\ z <= ZoomMax}
\* the positions asked of the slider: its positions and one beyond either end
ZoomRequests == ZoomLevels \cup {ZoomMin - 10, ZoomMax + 10}
\* Emboss and Sharpen sliders: min={0} max={100}, step 1
IntensityMin == 0
IntensityMax == 100
Intensities == IntensityMin..IntensityMax
\* DEFAULT_FILTERS.sharpen and DEFAULT_FILTERS.emboss
DefaultIntensity == 0
\* the positions asked of the Emboss and Sharpen sliders
IntensityRequests == Intensities \cup {IntensityMin - 1, IntensityMax + 1}
\* the filters of stored settings entries: JSON.stringify(filters) of an
\* earlier Save Settings effect.  SpecTransform explores the stored zooms,
\* SpecKernel the stored intensities.
StoredFilters == [zoom : ZoomLevels, sharpen : {DefaultIntensity}, emboss : {DefaultIntensity}]
StoredKernelFilters ==
    [zoom : {DefaultZoom},
     sharpen : {IntensityMin, 50, IntensityMax},
     emboss : {IntensityMin, 50, IntensityMax}]
\* pointer positions (clientX, clientY)
Positions == [x : 0..ViewSize, y : 0..ViewSize]
\* absolute pan requests of the minimap, in pan units
PanRequests == {-45 * ViewSize, -10 * ViewSize, 0, 10 * ViewSize, 45 * ViewSize}

Max(a, b) == IF a >= b THEN a ELSE b
Min(a, b) == IF a <= b THEN a ELSE b

\* (filters.zoom - 1) / 2 in pan units: ((z/10 - 1)/2) * 20 * ViewSize
MaxPan(z) == (z - 10) * ViewSize

Clamp_none(maxPan, v) == v

\* Math.max(-maxPan, Math.min(maxPan, v))
Clamp(maxPan, v) == Max(-maxPan, Min(maxPan, v))

PanDelta_inverted(d) == -20 * d

\* deltaX / w in pan units: (d / ViewSize) * 20 * ViewSize
PanDelta(d) == 20 * d

PanEffectPending == zoom # panEffZoom

RangeInput_unclamped(min, max, v) == v

\* <input type="range" min={min} max={max}>: the value the element reports
\* when position v is asked of it
RangeInput(min, max, v) == Max(min, Min(max, v))

\* updateFilter('zoom', v): the Digital Zoom slider
UpdateZoom(v) ==
    /\ ~PanEffectPending /\ error = NoError
    /\ RangeInput(ZoomMin, ZoomMax, v) # zoom
    /\ zoom' = RangeInput(ZoomMin, ZoomMax, v)
    /\ UNCHANGED <<pan, isDragging, lastMousePos, splitMode, panEffZoom, hookVars, kernelVars,
                   recordVars, prefVars, captureVars>>

\* updateFilter('sharpen', v): the Sharpen slider
UpdateSharpen(v) ==
    /\ ~PanEffectPending /\ error = NoError
    /\ RangeInput(IntensityMin, IntensityMax, v) # sharpen
    /\ sharpen' = RangeInput(IntensityMin, IntensityMax, v)
    /\ UNCHANGED <<emboss, panVars, hookVars, recordVars, prefVars, captureVars>>

\* updateFilter('emboss', v): the Emboss slider
UpdateEmboss(v) ==
    /\ ~PanEffectPending /\ error = NoError
    /\ RangeInput(IntensityMin, IntensityMax, v) # emboss
    /\ emboss' = RangeInput(IntensityMin, IntensityMax, v)
    /\ UNCHANGED <<sharpen, panVars, hookVars, recordVars, prefVars, captureVars>>

\* resetFilters: setFilters(DEFAULT_FILTERS)
ResetFilters ==
    /\ ~PanEffectPending /\ error = NoError
    /\ zoom' = DefaultZoom
    /\ sharpen' = DefaultIntensity
    /\ emboss' = DefaultIntensity
    /\ UNCHANGED <<pan, isDragging, lastMousePos, splitMode, panEffZoom, hookVars,
                   recordVars, prefVars, captureVars>>

\* Load Settings effect on a newly selected device: setFilters(parsed.filters
\* || DEFAULT_FILTERS), f the stored filters
LoadSettings(f) ==
    /\ ~PanEffectPending
    /\ zoom' = f.zoom
    /\ sharpen' = f.sharpen
    /\ emboss' = f.emboss
    /\ UNCHANGED <<pan, isDragging, lastMousePos, splitMode, panEffZoom, hookVars,
                   recordVars, prefVars, captureVars>>

PanAfterZoom_keep(z, p) == p

\* if (filters.zoom === 1) setPan({ x: 0, y: 0 })
PanAfterZoom(z, p) == IF z = 10 THEN [x |-> 0, y |-> 0] ELSE p

\* effect on [filters.zoom]
RunPanEffect ==
    /\ PanEffectPending
    /\ panEffZoom' = zoom
    /\ pan' = PanAfterZoom(zoom, pan)
    /\ UNCHANGED <<zoom, isDragging, lastMousePos, splitMode, hookVars, kernelVars,
                   recordVars, prefVars, captureVars>>

HandlePanChange(newX, newY) ==
    /\ ~PanEffectPending /\ error = NoError
    /\ IF zoom <= 10
       THEN UNCHANGED pan
       ELSE pan' = [x |-> Clamp(MaxPan(zoom), newX), y |-> Clamp(MaxPan(zoom), newY)]
    /\ UNCHANGED <<zoom, isDragging, lastMousePos, splitMode, panEffZoom, hookVars, kernelVars,
                   recordVars, prefVars, captureVars>>

HandleMouseDown(p) ==
    /\ ~PanEffectPending /\ error = NoError
    /\ IF zoom > 10 /\ ~splitMode
       THEN isDragging' = TRUE /\ lastMousePos' = p
       ELSE UNCHANGED <<isDragging, lastMousePos>>
    /\ UNCHANGED <<zoom, pan, splitMode, panEffZoom, hookVars, kernelVars, recordVars, prefVars, captureVars>>

HandleMouseMove(p) ==
    /\ ~PanEffectPending /\ error = NoError
    /\ IF isDragging
       THEN /\ lastMousePos' = p
            /\ pan' = [x |-> Clamp(MaxPan(zoom), pan.x + PanDelta(p.x - lastMousePos.x)),
                       y |-> Clamp(MaxPan(zoom), pan.y + PanDelta(p.y - lastMousePos.y))]
       ELSE UNCHANGED <<pan, lastMousePos>>
    /\ UNCHANGED <<zoom, isDragging, splitMode, panEffZoom, hookVars, kernelVars,
                   recordVars, prefVars, captureVars>>

\* window 'mouseup' listener
HandleMouseUp ==
    /\ ~PanEffectPending
    /\ isDragging' = FALSE
    /\ UNCHANGED <<zoom, pan, lastMousePos, splitMode, panEffZoom, hookVars, kernelVars,
                   recordVars, prefVars, captureVars>>

\* handleToggleSplit, as far as splitMode goes
HandleToggleSplit ==
    /\ ~PanEffectPending
    /\ splitMode' = ~splitMode
    /\ UNCHANGED <<zoom, pan, isDragging, lastMousePos, panEffZoom, hookVars, kernelVars,
                   recordVars, prefVars, captureVars>>

NextTransform ==
    \/ \E v \in ZoomRequests : UpdateZoom(v)
    \/ ResetFilters
    \/ \E f \in StoredFilters : LoadSettings(f)
    \/ RunPanEffect
    \/ \E nx \in PanRequests, ny \in PanRequests : HandlePanChange(nx, ny)
    \/ \E p \in Positions : HandleMouseDown(p)
    \/ \E p \in Positions : HandleMouseMove(p)
    \/ HandleMouseUp
    \/ HandleToggleSplit

SpecTransform == Init /\ [][NextTransform]_vars

(* --------------------------- convolution kernels ----------------------- *)
\* kernel entries are kept in hundredths: the code divides the intensity by 100
KernelUnit == 100

\* (intensity / 100) * factor, in hundredths
KernelStrength(intensity, factor) == (intensity * factor * KernelUnit) \div 100

SharpenMatrix_fiveCentre(intensity) ==
    LET s == KernelStrength(intensity, 15)
    IN  <<0, -s, 0, -s, KernelUnit + 5 * s, -s, 0, -s, 0>>

\* `0 ${-s} 0 ${-s} ${1 + 4 * s} ${-s} 0 ${-s} 0` with s = (filters.sharpen / 100) * 15
SharpenMatrix(intensity) ==
    LET s == KernelStrength(intensity, 15)
    IN  <<0, -s, 0, -s, KernelUnit + 4 * s, -s, 0, -s, 0>>

\* `${-2 * s} ${-1 * s} 0 ${-1 * s} 1 ${1 * s} 0 ${1 * s} ${2 * s}` with
\* s = (filters.emboss / 100) * 3
EmbossMatrix(intensity) ==
    LET s == KernelStrength(intensity, 3)
    IN  <<-2 * s, -1 * s, 0, -1 * s, KernelUnit, 1 * s, 0, 1 * s, 2 * s>>

NextKernel ==
    \/ \E v \in IntensityRequests : UpdateSharpen(v)
    \/ \E v \in IntensityRequests : UpdateEmboss(v)
    \/ ResetFilters
    \/ \E f \in StoredKernelFilters : LoadSettings(f)

SpecKernel == Init /\ [][NextKernel]_vars

(* ------------------------- preference actions -------------------------- *)
\* the aspect ratios explored, of the <option>s of the aspect ratio <select>
AspectRatios == {"3/2", "16/9"}

\* onChange of the aspect ratio <select>
SetAspectRatio(a) ==
    /\ hookMounted /\ ~EffectsPending
    /\ a # aspectRatio
    /\ aspectRatio' = a
    /\ UNCHANGED <<storage, isLoadedRef, settleTimers, loadDep, saveDeps, writes,
                   hookVars, panVars, kernelVars, recordVars, captureVars>>

\* the refreshStream member of the hook's return value
RefreshStream == SetCompatibilityMode(~compatibilityMode)

\* isLoadedRef.current after the Load Settings effect: false if it loaded
IsLoaded(loads, isLoaded) == IF loads THEN FALSE ELSE isLoaded

\* the effects of App on the last render: Load Settings if selectedDeviceId
\* changed, then Save Settings if one of its deps changed.  State set by
\* the load shows in the next render.
RunSettingsEffects ==
    /\ SettingsEffectsPending /\ ~EffectsPending
    /\ LET d == selectedDeviceId
           loads == d # loadDep /\ d # ""
           entry == IF loads THEN TryParse(storage[d]) ELSE NoEntry
           isLoaded == IsLoaded(loads, isLoadedRef)
           saves == SaveDeps # saveDeps /\ d # "" /\ isLoaded
       IN  /\ isLoadedRef' = isLoaded
           /\ settleTimers' = IF loads THEN settleTimers + 1 ELSE settleTimers
           /\ IF loads
              THEN /\ zoom' = LoadedFilters(entry).zoom
                   /\ sharpen' = LoadedFilters(entry).sharpen
                   /\ emboss' = LoadedFilters(entry).emboss
                   /\ aspectRatio' = LoadedAspect(entry)
                   /\ compatibilityMode' = LoadedCompat(entry, compatibilityMode)
              ELSE UNCHANGED <<zoom, sharpen, emboss, aspectRatio, compatibilityMode>>
           /\ storage' = IF saves THEN [storage EXCEPT ![d] = Stringify(Settings)] ELSE storage
           /\ writes' = IF saves
                        THEN [writes EXCEPT ![d] =
                                 [saved |-> TRUE, settings |-> Settings,
                                  early |-> @.early \/ loads \/ settleTimers > 0]]
                        ELSE writes
    /\ loadDep' = selectedDeviceId
    /\ saveDeps' = SaveDeps
    /\ UNCHANGED <<hookMounted, selectedDeviceId, stream, error, reqs, streams, effDeps,
                   curReq, cleanupStream, regVars, monVars, pan, isDragging, lastMousePos,
                   splitMode, panEffZoom, recordVars, captureVars>>

\* a timer of the Load Settings effect fires: isLoadedRef.current = true
SettleTimer ==
    /\ settleTimers > 0
    /\ settleTimers' = settleTimers - 1
    /\ isLoadedRef' = TRUE
    /\ UNCHANGED <<aspectRatio, storage, loadDep, saveDeps, writes,
                   hookVars, panVars, kernelVars, recordVars, captureVars>>

NextSettings ==
    \/ ~SettingsEffectsPending /\ \E d \in Devs : SetSelectedDeviceId(d)
    \/ ~SettingsEffectsPending /\ \E v \in ZoomRequests : UpdateZoom(v)
    \/ ~SettingsEffectsPending /\ \E a \in AspectRatios : SetAspectRatio(a)
    \/ ~SettingsEffectsPending /\ RefreshStream
    \/ RunEffects
    \/ RunSettingsEffects
    \/ RunPanEffect
    \/ SettleTimer

SpecSettings == Init /\ [][NextSettings]_vars

\* something other than the Save Settings effect (another script of the
\* origin, the user in the developer tools) stores text that is not JSON
\* under the key of device d
ForeignWrite(d) ==
    /\ storage[d] # Unparsable
    /\ storage' = [storage EXCEPT ![d] = Unparsable]
    /\ UNCHANGED <<aspectRatio, isLoadedRef, settleTimers, loadDep, saveDeps, writes,
                   hookVars, panVars, kernelVars, recordVars, captureVars>>

NextStorage ==
    \/ NextSettings
    \/ \E d \in Devs : ForeignWrite(d)

SpecStorage == Init /\ [][NextStorage]_vars

(* ------------------------------- capture ------------------------------- *)
\* width x height of the frames a device delivers when the constraints name
\* no size
DeviceDefaultWidth == 1280
DeviceDefaultHeight == 720

\* the native frame size of stream s: the ideal size of the getUserMedia
\* call that obtained it, the device's own when that call named none
NativeSize(s) ==
    LET calls == reqs[streams[s].req].calls
        c == calls[Len(calls)]
    IN  IF c.width = 0
        THEN [width |-> DeviceDefaultWidth, height |-> DeviceDefaultHeight]
        ELSE [width |-> c.width, height |-> c.height]

\* videoRef.current while the <video> element is not rendered
NoElement == [mounted |-> FALSE, videoWidth |-> 0, videoHeight |-> 0]

\* videoRef.current: the <video> element is rendered only while error is
\* null; its srcObject is the stream of the last effects (videoRef.current
\* .srcObject = stream), and videoWidth x videoHeight is the native size of
\* that stream once its metadata is loaded (ready), 0 x 0 before
VideoRef(ready) ==
    IF error # NoError
    THEN NoElement
    ELSE IF stream = NULL \/ ~ready
    THEN [mounted |-> TRUE, videoWidth |-> 0, videoHeight |-> 0]
    ELSE [mounted |-> TRUE, videoWidth |-> NativeSize(stream).width,
          videoHeight |-> NativeSize(stream).height]

CanvasSize_displayed(videoElement) ==
    [width |-> (videoElement.videoWidth * zoom) \div 10,
     height |-> (videoElement.videoHeight * zoom) \div 10]

\* canvas.width = videoElement.videoWidth; canvas.height = videoElement.videoHeight
CanvasSize(videoElement) ==
    [width |-> videoElement.videoWidth, height |-> videoElement.videoHeight]

\* canvas.toDataURL('image/png'): a canvas without pixels gives 'data:,'
ToDataURL(size) ==
    IF size.width = 0 \/ size.height = 0 THEN "data:," ELSE "data:image/png"

\* takePhoto(videoElement): what it returns and the canvas it created
TakePhoto(videoElement) ==
    IF ~videoElement.mounted
    THEN [element |-> videoElement, url |-> "null", canvas |-> FALSE,
          width |-> 0, height |-> 0]
    ELSE [element |-> videoElement, url |-> ToDataURL(CanvasSize(videoElement)),
          canvas |-> TRUE,
          width |-> CanvasSize(videoElement).width,
          height |-> CanvasSize(videoElement).height]

\* the gallery item handleTakePhoto adds for the call-th photo
ImageItem(call) == [type |-> "image", of |-> call]

\* a call of takePhoto with no element, or with the <video> element
TakePhotoCall(videoElement) ==
    /\ hookMounted /\ ~EffectsPending
    /\ Len(photoCalls) < MaxCalls
    /\ photoCalls' = Append(photoCalls, TakePhoto(videoElement))
    /\ UNCHANGED <<mediaItems, hookVars, panVars, kernelVars, recordVars, prefVars>>

\* handleTakePhoto (the SNAP button): if (videoRef.current) { photoUrl =
\* takePhoto(videoRef.current); if (photoUrl) setMediaItems(...) }
HandleTakePhoto(ready) ==
    /\ hookMounted /\ ~EffectsPending /\ ~PanEffectPending
    /\ Len(photoCalls) < MaxCalls
    /\ IF VideoRef(ready).mounted
       THEN /\ photoCalls' = Append(photoCalls, TakePhoto(VideoRef(ready)))
            /\ mediaItems' = IF TakePhoto(VideoRef(ready)).url # "null"
                             THEN <<ImageItem(Len(photoCalls) + 1)>> \o mediaItems
                             ELSE mediaItems
       ELSE UNCHANGED <<photoCalls, mediaItems>>
    /\ UNCHANGED <<hookVars, panVars, kernelVars, recordVars, prefVars>>

NextCapture ==
    \/ \E d \in Devs : SelectWhenIdle(d)
    \/ RunEffects
    \/ \E r \in 1..Len(reqs) : GumResolve(r)
    \/ \E r \in 1..Len(reqs) : GumReject(r, "NotReadableError")
    \/ \E v \in {ZoomMin, ZoomMax} : UpdateZoom(v)
    \/ RunPanEffect
    \/ HandlePanChange(MaxPan(ZoomMax), 0)
    \/ \E ready \in BOOLEAN : HandleTakePhoto(ready)
    \/ TakePhotoCall(NoElement)

SpecCapture == Init /\ [][NextCapture]_vars

(* --------------------- transform engine: properties -------------------- *)
Abs(v) == IF v < 0 THEN -v ELSE v

\* C10 as claimed: once effects have run, |pan.x| <= (scale-1)/2 and
\* |pan.y| <= (scale-1)/2, whatever zoom changes, pan requests, drags,
\* resets and loads came before.
C10_PanWithinBounds ==
    ~PanEffectPending
    => /\ Abs(pan.x) <= (zoom - 10) * ViewSize
       /\ Abs(pan.y) <= (zoom - 10) * ViewSize

\* C11: whenever filters.zoom is exactly 1 and the pan reset effect has run,
\* the stored pan is {0, 0}, whichever operation set the zoom.
C11_UnitZoomCentred ==
    (zoom = 10 /\ ~PanEffectPending) => pan = [x |-> 0, y |-> 0]

\* the zoom was set to 1 while the image was panned to a corner at zoom 5;
\* the only step enabled is the effect that re-centres it
C11_Witness ==
    /\ zoom = 10 /\ panEffZoom = 50
    /\ pan = [x |-> MaxPan(50), y |-> -MaxPan(50)]

(* ------------------------- kernels: properties -------------------------- *)
RECURSIVE SumSeq(_)
SumSeq(q) == IF q = <<>> THEN 0 ELSE Head(q) + SumSeq(Tail(q))

IdentityKernel == <<0, 0, 0, 0, KernelUnit, 0, 0, 0, 0>>

AnyPanChange == \E nx \in PanRequests, ny \in PanRequests : HandlePanChange(nx, ny)
\* the step is a mouse down / a mouse move: a pointer event that changes
\* the captured position leaves it at the pointer's position, one that does
\* not change it does the same at every position
AnyMouseDown == HandleMouseDown(lastMousePos')
AnyMouseMove == HandleMouseMove(lastMousePos')

\* C14: a pan request made while filters.zoom <= 1, be it an absolute
\* request (handlePanChange) or a drag move, leaves the stored pan unchanged.
C14_NoPanAtUnitZoom ==
    [][(zoom <= 10 /\ (AnyPanChange \/ AnyMouseMove)) => pan' = pan]_vars

\* a drag begun at a larger zoom is still held at zoom 1, so the next move
\* is a drag move arriving at zoom 1
C14_Witness ==
    /\ zoom = 10 /\ ~PanEffectPending
    /\ isDragging
    /\ lastMousePos = [x |-> ViewSize, y |-> 0]
    /\ pan = [x |-> 0, y |-> 0]

\* C15: drag protocol.  A mouse down enters the dragging state and captures
\* the pointer position only if zoom > 1; a move while not dragging changes
\* neither pan nor the captured position; a move while dragging adds the
\* pointer delta over the unscaled element size to pan and clamps each axis
\* to [-maxPan, maxPan]; a mouse up always leaves the dragging state, so a
\* move between a mouse up and the next mouse down does not change pan.
C15_DragProtocol ==
    [][/\ ((isDragging' # isDragging \/ lastMousePos' # lastMousePos) /\ AnyMouseDown)
           => (zoom > 10 /\ isDragging')
       /\ (~isDragging /\ AnyMouseMove)
           => (pan' = pan /\ lastMousePos' = lastMousePos)
       /\ (isDragging /\ AnyMouseMove)
           => LET m == (zoom - 10) * ViewSize
                  nx == pan.x + 20 * (lastMousePos'.x - lastMousePos.x)
                  ny == pan.y + 20 * (lastMousePos'.y - lastMousePos.y)
              IN  /\ pan'.x = Max(-m, Min(m, nx))
                  /\ pan'.y = Max(-m, Min(m, ny))
       /\ HandleMouseUp => ~isDragging'
      ]_vars

\* a finished gesture: the pan one pixel short of the edge at zoom 5 is not a
\* value the minimap can set, the captured position is where the drag ended,
\* and the dragging state has been left
C15_Witness ==
    /\ zoom = 50 /\ ~isDragging
    /\ pan = [x |-> MaxPan(50) - 20, y |-> 20 - MaxPan(50)]
    /\ lastMousePos = [x |-> ViewSize - 1, y |-> 1]

DeviceIds(devs) == {devs[i].deviceId : i \in DOMAIN devs}

\* the step is the successful completion of an enumeration / its failure
AnyEnumResolved ==
    \E e \in DOMAIN enums : enums[e].phase = "pending" /\ enums'[e].phase = "done"
AnyEnumFailed ==
    \E e \in DOMAIN enums : enums[e].phase = "pending" /\ enums'[e].phase = "logged"

\* C16: when an enumeration completes successfully while no device is
\* selected, the selection becomes the first video input in enumeration
\* order if there is one, and stays empty if there is none.
C16_AutoSelectFirst ==
    [][(AnyEnumResolved /\ selectedDeviceId = "")
       => LET cams == VideoInputs(plugged)
          IN  /\ DeviceIds(devices') = DeviceIds(cams)
              /\ selectedDeviceId' = IF cams # <<>> THEN cams[1].deviceId ELSE ""
      ]_vars

\* the platform listed camB before camA when the first scan completed: camB
\* was selected, and the stream effect has not run yet
C16_Witness ==
    /\ selectedDeviceId = "camB" /\ reqs = <<>>
    /\ Len(devices) = 2 /\ devices[1].deviceId = "camB"
    /\ plugged[1].kind = "audioinput"

\* C17 as claimed: a re-enumeration whose result still contains the selected
\* identity leaves the selection unchanged, and the device list becomes the
\* video inputs of the new result.
C17_SelectionPersists ==
    [][(AnyEnumResolved /\ selectedDeviceId # ""
          /\ selectedDeviceId \in DeviceIds(devices'))
       => /\ selectedDeviceId' = selectedDeviceId
          /\ [i \in DOMAIN devices' |-> devices'[i].deviceId]
                = [i \in DOMAIN VideoInputs(plugged) |-> VideoInputs(plugged)[i].deviceId]
      ]_vars

\* C18 as claimed: an enumeration whose result no longer contains the selected
\* identity empties the selection, so that after it the selection is empty or
\* an identity of the current device list.
C18_SelectionClearedWhenGone ==
    [][AnyEnumResolved
       => /\ (selectedDeviceId # "" /\ selectedDeviceId \notin DeviceIds(devices'))
                => selectedDeviceId' = ""
          /\ selectedDeviceId' \in DeviceIds(devices') \cup {""}
      ]_vars

\* C19 as claimed: a failed enumeration is only logged, leaves the empty
\* device list behind, and changes neither the selection nor the stream.
C19_FailureEmptiesList ==
    [][AnyEnumFailed
       => /\ devices' = <<>>
          /\ selectedDeviceId' = selectedDeviceId
          /\ stream' = stream
      ]_vars

(* ----------------------- health monitor: properties ------------------- *)
\* the interval callback set for stream s can run in this state
TickEnabled(s) == s \in intervals

\* C20 as claimed: a sampling tick can occur only in states where stream is
\* non-null, and whenever stream is null once effects have run, debugInfo is
\* null.
C20_SamplingOnlyWhileActive ==
    /\ \A s \in 1..Len(streams) : TickEnabled(s) => stream # NULL
    /\ (hookMounted /\ ~EffectsPending /\ stream = NULL) => debugInfo = NoSample

\* C21 as claimed: the sampling timer of a stream that is no longer the
\* active one is cancelled, so a tick can only be that of the active stream
\* and never reads a track the hook has stopped; no sample shows an ended
\* track.
C21_NoTickOnReleasedHandle ==
    /\ \A s \in 1..Len(streams) :
          TickEnabled(s) => (s = stream /\ streams[s].readyState = "live")
    /\ debugInfo.readyState # "ended"

(* ------------------------- recording: properties ----------------------- *)
RecorderIds == 1..Len(recorders)
StopCallIds == 1..Len(stopCalls)

\* C22 as claimed: at most one recorder is recording or flushing at any
\* time, and a recorder that is recording is the one mediaRecorderRef holds,
\* so that stopRecording can stop it.
C22_SingleRecorder ==
    /\ Cardinality({r \in RecorderIds : recorders[r].state # "inactive"}) <= 1
    /\ \A r \in RecorderIds : recorders[r].state = "recording" => mediaRecorderRef = r

\* C23 as claimed: a stopRecording call made while no recording is in
\* progress (none was ever started, or the last one has ended and
\* isRecording is false again) has resolved with null.
C23_StopWhenIdleResolvesNull ==
    \A c \in StopCallIds :
        (stopCalls[c].state \in {"none", "inactive"} /\ ~stopCalls[c].wasRecording)
        => stopCalls[c].result = "null"

\* C24: as long as startRecording has never been called, every stopRecording
\* call has resolved with null (it was neither rejected nor left pending),
\* isRecording is false and no recorder exists.
C24_StopBeforeAnyStart ==
    startCalls = <<>>
    => /\ \A c \in StopCallIds :
             stopCalls[c].result = "null" /\ stopCalls[c].recorder = NULL
       /\ ~isRecording
       /\ mediaRecorderRef = NULL /\ recorders = <<>>

\* two calls of stopRecording while a stream is active and nothing was ever
\* recorded
C24_Witness ==
    /\ startCalls = <<>> /\ Len(stopCalls) = 2
    /\ stream # NULL /\ ~EffectsPending

\* the chunks recorder r has emitted
EmittedBy(r) == IF recorders[r].emitted = "data" THEN <<r>> ELSE <<>>

\* C25 as claimed: a stopRecording call made on a recording in progress
\* that has resolved with a clip resolved after its recorder was flushed,
\* and the clip consists of exactly the chunks that recorder emitted.
C25_ClipIsOwnChunks ==
    \A c \in StopCallIds :
        (stopCalls[c].state = "recording" /\ stopCalls[c].result = "clip")
        => /\ recorders[stopCalls[c].recorder].state = "inactive"
           /\ stopCalls[c].clip = EmittedBy(stopCalls[c].recorder)

\* the promise of call c can no longer be settled: it is pending and its
\* recorder, being inactive, fires no further event
Hung(c) ==
    /\ stopCalls[c].result = "pending"
    /\ recorders[stopCalls[c].recorder].state = "inactive"

\* C26 as claimed: the one stopRecording call made for a recording (isRecording
\* true, no other call on its recorder) whose stream has been stopped is
\* neither rejected nor left without any event that could resolve it.
C26_StopAfterStreamReplaced ==
    \A c \in StopCallIds :
        ( /\ stopCalls[c].wasRecording
          /\ stopCalls[c].recorder # NULL
          /\ \A d \in StopCallIds \ {c} : stopCalls[d].recorder # stopCalls[c].recorder
          /\ streams[recorders[stopCalls[c].recorder].stream].readyState = "ended" )
        => stopCalls[c].result # "rejected" /\ ~Hung(c)

\* the step is a call of startRecording
AnyStartRecording == Len(startCalls') = Len(startCalls) + 1

\* C27: startRecording with no active stream changes nothing (no recorder,
\* isRecording and the accumulated chunks as before); with an active stream
\* it starts a recorder on the stream active at that moment, keeps it in
\* mediaRecorderRef and sets isRecording.
C27_StartRecording ==
    [][AnyStartRecording
       => IF stream = NULL
          THEN /\ recorders' = recorders
               /\ isRecording' = isRecording
               /\ recordedChunksRef' = recordedChunksRef
               /\ mediaRecorderRef' = mediaRecorderRef
          ELSE /\ Len(recorders') = Len(recorders) + 1
               /\ recorders'[Len(recorders')].stream = stream
               /\ recorders'[Len(recorders')].state = "recording"
               /\ mediaRecorderRef' = Len(recorders')
               /\ isRecording'
      ]_vars

\* a clip was recorded on the first stream, the next request failed, and
\* startRecording was then called with no stream: the chunk is still there
C27_Witness ==
    /\ Len(startCalls) = 2
    /\ startCalls[1].stream # NULL /\ startCalls[2].stream = NULL
    /\ startCalls[2].recorder = NULL
    /\ recordedChunksRef = <<1>> /\ ~isRecording

(* ------------------------ preferences: properties ---------------------- *)
\* C28 as claimed: no setItem for a device was made between its selection
\* and the firing of the settle timer set by its own load.
C28_NoSaveInSettleWindow ==
    \A d \in Devs : ~writes[d].early

\* the step is a run of the Load Settings effect for a device
AnyLoad == loadDep' # loadDep /\ selectedDeviceId # ""

\* C29: when the Load Settings effect runs for a device for which settings
\* were saved, the filters, the aspect ratio and the compatibility mode it
\* sets are those of the last save for that device.
C29_RoundTrip ==
    [][(AnyLoad /\ writes[selectedDeviceId].saved)
       => /\ zoom' = writes[selectedDeviceId].settings.filters.zoom
          /\ sharpen' = writes[selectedDeviceId].settings.filters.sharpen
          /\ emboss' = writes[selectedDeviceId].settings.filters.emboss
          /\ aspectRatio' = writes[selectedDeviceId].settings.aspectRatio
          /\ compatibilityMode' = writes[selectedDeviceId].settings.compatibilityMode
      ]_vars

\* camA was left at zoom 5 and 16:9, camB was used at other settings, and
\* selecting camA again has restored zoom 5 and 16:9 from its entry
C29_Witness ==
    /\ selectedDeviceId = "camA" /\ loadDep = "camA" /\ ~isLoadedRef
    /\ zoom = 50 /\ aspectRatio = "16/9"
    /\ writes["camA"].saved /\ writes["camA"].settings = Settings
    /\ writes["camB"].saved /\ writes["camB"].settings.filters.zoom = 20
    /\ storage["camA"].filters[1] = "50"

\* C30 as claimed: a call of refreshStream leaves compatibilityMode as it was.
C30_RefreshKeepsSettings ==
    [][RefreshStream => compatibilityMode' = compatibilityMode]_vars

(* -------------------------- capture: properties ------------------------ *)
\* the step is a call of takePhoto
AnyTakePhoto == Len(photoCalls') = Len(photoCalls) + 1

\* C31: takePhoto returns null and creates no canvas (and the gallery gets
\* no item) when it is given no frame source; given the <video> element it
\* returns a still of the native size of the active stream (0 x 0 while the
\* element has no frame yet), whatever the zoom and pan, and it changes
\* neither the stream nor zoom and pan.
C31_Snapshot ==
    [][AnyTakePhoto
       => LET call == photoCalls'[Len(photoCalls')]
          IN  /\ IF ~call.element.mounted
                 THEN /\ call.url = "null" /\ ~call.canvas
                      /\ mediaItems' = mediaItems
                 ELSE /\ call.url # "null" /\ call.canvas
                      /\ \/ call.width = 0 /\ call.height = 0
                         \/ /\ stream # NULL
                            /\ call.width = NativeSize(stream).width
                            /\ call.height = NativeSize(stream).height
                            /\ call.url = "data:image/png"
              /\ stream' = stream /\ streams' = streams /\ error' = error
              /\ zoom' = zoom /\ pan' = pan
      ]_vars

\* a call without a frame source was followed by a still of a stream of
\* the HD profile and one of a stream obtained by the fallback call, both
\* taken at zoom 5 with the image panned; only the stills are in the gallery
C31_Witness ==
    /\ Len(photoCalls) = 3
    /\ ~photoCalls[1].element.mounted /\ photoCalls[1].url = "null"
    /\ photoCalls[2].width = 1920 /\ photoCalls[2].height = 1080
    /\ photoCalls[3].width = DeviceDefaultWidth /\ photoCalls[3].height = DeviceDefaultHeight
    /\ zoom = 50 /\ pan.x # 0
    /\ Len(mediaItems) = 2

(* ----------------------- auto-selection: properties -------------------- *)
\* C32 as claimed: once selectedDeviceId is non-empty, the completion of an
\* enumeration, whenever that enumeration was started, leaves it unchanged.
C32_SelectionNotOverwritten ==
    [][(AnyEnumResolved /\ selectedDeviceId # "")
       => selectedDeviceId' = selectedDeviceId
      ]_vars

(* ------------------------ label refresh: properties -------------------- *)
\* C33 as claimed: label-triggered re-enumeration ends by itself: when the
\* effects re-run only because an enumeration started by the label effect has
\* delivered its list, labelled or not, the label effect does not call
\* getDevices again.
C33_LabelRefreshTerminates ==
    [][( /\ devicesFrom \in labelEnums
         /\ devicesFrom # labelDevices
         /\ stream = cleanupStream
         /\ <<selectedDeviceId, compatibilityMode>> = effDeps )
       => labelEnums' = labelEnums
      ]_vars

(* --------------------------- release: properties ----------------------- *)
\* C34 as claimed: whatever selections, profile changes, failures and
\* teardown occurred, track.stop() has been called at most once on the
\* tracks of each stream getUserMedia returned.
C34_NoDoubleRelease ==
    \A s \in StreamIds : streams[s].stops <= 1

(* ------------------------- negotiation: liveness ----------------------- *)
\* Active for identity d: a stream bound to d is the active one, error null
ActiveFor(d) == stream # NULL /\ streams[stream].deviceId = d /\ error = NoError
\* Failed: no stream and an error message
Failed == stream = NULL /\ error # NoError

\* the step completes a getUserMedia call
AnyGumCompleted ==
    \E r \in DOMAIN reqs :
        InFlight(r) /\ (reqs'[r].phase # reqs[r].phase \/ reqs'[r].rejects # reqs[r].rejects)

\* C35: if every getUserMedia call completes, then once the pair (selected
\* identity, compatibility mode) has changed for the last time, to a
\* non-empty identity d, the mounted hook eventually is, and stays, Active
\* for d or Failed; and stream and error change only in a step that
\* completes a getUserMedia call (there is no timeout).
C35_NegotiationSettles ==
    /\ \A d \in Devs : \A b \in BOOLEAN :
          <>[](hookMounted /\ selectedDeviceId = d /\ compatibilityMode = b)
          => <>[](ActiveFor(d) \/ Failed)
    /\ [][(stream' # stream \/ error' # error) => AnyGumCompleted]_vars

\* the last request got its stream from the fallback call, after an earlier
\* request for the other camera was abandoned in failure
C35_Witness ==
    /\ hookMounted /\ Settled
    /\ Len(reqs) >= 2
    /\ reqs[Len(reqs)].phase = "active" /\ reqs[Len(reqs)].rejects = 1
    /\ reqs[Len(reqs) - 1].phase = "abandoned"
    /\ reqs[Len(reqs) - 1].deviceId # reqs[Len(reqs)].deviceId
    /\ ActiveFor(selectedDeviceId)

(* ------------------------ health sample: properties -------------------- *)
\* C36 as claimed: once the effects of a render have run, a health sample
\* that is not null was taken from the stream that is the active one.
C36_SampleOfCurrentStream ==
    (hookMounted /\ ~EffectsPending /\ debugInfo # NoSample)
    => debugInfo.stream = stream

(* ----------------------- double stop: properties ----------------------- *)
\* the stopRecording calls made on recorder r while it was recording or
\* waiting to be flushed
StopCallsOn(r) ==
    {c \in StopCallIds : stopCalls[c].recorder = r
                           /\ stopCalls[c].state \in {"recording", "stopping"}}

\* the clips in the gallery that stopRecording calls on recorder r resolved with
ClipItems(r) ==
    {i \in DOMAIN mediaItems :
        mediaItems[i].type = "video" /\ stopCalls[mediaItems[i].of].recorder = r}

\* C37 as claimed: no stopRecording call made on a recording in progress,
\* be it the first or one made while the first waits for the flush, is
\* rejected; and once the recorder has been flushed every such call has
\* resolved, the first one with the clip, isRecording is false unless a
\* later recording was started, and the gallery holds exactly one clip of
\* that recording.
C37_EveryStopResolves ==
    \A r \in RecorderIds :
        /\ \A c \in StopCallsOn(r) : stopCalls[c].result # "rejected"
        /\ (StopCallsOn(r) # {} /\ recorders[r].state = "inactive")
           => /\ \A c \in StopCallsOn(r) : stopCalls[c].result # "pending"
              /\ \A c \in StopCallsOn(r) :
                    (\A d \in StopCallsOn(r) : c <= d) => stopCalls[c].result = "clip"
              /\ (r = Len(recorders)) => ~isRecording
              /\ Cardinality(ClipItems(r)) = 1

(* ---------------------- persistence: properties ------------------------ *)
\* every effect has run and every settle timer has fired
SettingsQuiescent ==
    /\ hookMounted /\ ~EffectsPending /\ ~SettingsEffectsPending /\ ~PanEffectPending
    /\ settleTimers = 0

\* C38 as claimed: once the system is quiescent with a device selected, the
\* stored entry of that device is the text of the current (filters,
\* aspectRatio, compatibilityMode), unless there is nothing to persist:
\* no entry is stored and filters and aspect ratio are the defaults a load
\* without an entry sets.
C38_ChangesPersisted ==
    (SettingsQuiescent /\ selectedDeviceId # "")
    => \/ storage[selectedDeviceId] = Stringify(Settings)
       \/ /\ storage[selectedDeviceId] = NoEntry
          /\ Settings.filters = DefaultFilters
          /\ aspectRatio = "3/2"

(* ----------------------- missing entry: properties --------------------- *)
\* nothing usable is stored for device d
Missing(d) == storage[d] \in {NoEntry, Unparsable}

\* the step is a setItem of the Save Settings effect
AnySave == writes' # writes

\* C39 as claimed: a load for a device whose entry is absent or unparsable
\* sets filters and aspect ratio to the defaults, leaves compatibilityMode
\* and the entry as they are; and such an entry is first written only
\* outside the settle window and with a setting that differs from what the
\* load had set.
C39_LoadOfMissingEntry ==
    [][/\ (AnyLoad /\ Missing(selectedDeviceId))
          => /\ zoom' = 10 /\ sharpen' = 0 /\ emboss' = 0
             /\ aspectRatio' = "3/2"
             /\ compatibilityMode' = compatibilityMode
             /\ storage' = storage
       /\ (AnySave /\ Missing(selectedDeviceId))
          => /\ settleTimers = 0
             /\ \/ Settings.filters # DefaultFilters
                \/ aspectRatio # "3/2"
                \/ compatibilityMode # saveDeps.compatibilityMode
      ]_vars

====
